---- MODULE Spec2Model ----
(***************************************************************************)
(* Black-Scholes pricing model (Delta_hedging/src/options/black_scholes.py) *)
(*                                                                         *)
(* A BlackScholes object holds five Python numbers S, K, T, r, sigma and   *)
(* answers twelve queries.  Real numbers are modelled in decimal fixed     *)
(* point: the integer n stands for n / ONE, every product and quotient is  *)
(* rounded to the nearest unit, sums and differences are exact.  The       *)
(* results of numpy arithmetic are IEEE values: a finite number, +inf,     *)
(* -inf or nan; a Python-level division by zero raises ZeroDivisionError.  *)
(* Every zero divisor that arises here is +0.0 (sigma, S and sqrt(T) are   *)
(* never negative zero on the inputs enumerated), so the sign of a         *)
(* quotient by zero is the sign of its numerator.                          *)
(***************************************************************************)
EXTENDS Integers, Sequences, FiniteSets, TLC

VARIABLES self, last, result, trace, first

vars == <<self, last, result, trace, first>>

(***************************************************************************)
(* Fixed-point arithmetic on finite numbers                                *)
(***************************************************************************)
ONE == 10 * 10 * 10

Abs(n) == IF n < 0 THEN -n ELSE n

Sign(n) == IF n < 0 THEN -1 ELSE IF n > 0 THEN 1 ELSE 0

\* a / b rounded to the nearest integer (halves away from zero), b # 0
Rnd(a, b) ==
    LET n == Abs(a)
        d == Abs(b)
        q == (2 * n + d) \div (2 * d)
    IN  IF Sign(a) * Sign(b) < 0 THEN -q ELSE q

Mul(a, b) == Rnd(a * b, ONE)

Div(a, b) == Rnd(a * ONE, b)

RECURSIVE ISqrtIter(_, _)
ISqrtIter(n, x) ==
    LET y == (x + n \div x) \div 2
    IN  IF y >= x THEN x ELSE ISqrtIter(n, y)

\* square root of t >= 0, rounded to the nearest unit
Sqrt(t) ==
    IF t = 0 THEN 0
    ELSE LET n == t * ONE
             f == ISqrtIter(n, n)
         IN  IF n - f * f > f THEN f + 1 ELSE f

\* ln 2 and 1/sqrt(2 pi)
LN2 == 693

INV_SQRT_2PI == 399

\* number of series terms summed by Ln and Exp
Terms == 6

\* x = (a / b) * 2^k with a / b in [3/4, 3/2)
RECURSIVE LnReduce(_, _, _)
LnReduce(a, b, k) ==
    IF 2 * a >= 3 * b THEN LnReduce(a, 2 * b, k + 1)
    ELSE IF 4 * a < 3 * b THEN LnReduce(2 * a, b, k - 1)
    ELSE <<a, b, k>>

\* sum of t * z^(2i) / (2i + 1) for i = j .. Terms - 1
RECURSIVE AtanhSum(_, _, _)
AtanhSum(t, z2, j) ==
    IF j >= Terms \/ t = 0 THEN 0
    ELSE Rnd(t, 2 * j + 1) + AtanhSum(Mul(t, z2), z2, j + 1)

\* natural logarithm of x > 0: k ln 2 + 2 atanh((m - 1) / (m + 1))
Ln(x) ==
    LET red  == LnReduce(x, ONE, 0)
        twoZ == Rnd(2 * (red[1] - red[2]) * ONE, red[1] + red[2])
        z    == Rnd(twoZ, 2)
    IN  red[3] * LN2 + AtanhSum(twoZ, Mul(z, z), 0)

\* sum of the Taylor terms f^i / i! for i = j .. Terms, t the term of index j
RECURSIVE ExpSum(_, _, _)
ExpSum(t, f, j) ==
    IF j > Terms \/ t = 0 THEN 0
    ELSE t + ExpSum(Rnd(t * f, (j + 1) * ONE), f, j + 1)

\* Euler's number
E == 2718

\* s * e^n for an integer n, one factor of e at a time
RECURSIVE EScale(_, _)
EScale(s, n) ==
    IF n = 0 THEN s
    ELSE IF n > 0 THEN EScale(Rnd(s * E, ONE), n - 1)
    ELSE EScale(Rnd(s * ONE, E), n + 1)

\* e^y: y = n + f with n an integer and |f| <= 1/2; below e^-8.5 the result
\* rounds to zero
Exp(y) ==
    IF 2 * y < -17 * ONE THEN 0
    ELSE LET n == Rnd(y, ONE)
         IN  EScale(ExpSum(ONE, y - n * ONE, 0), n)

\* Phi at 0.0, 0.1, ..., 3.3; from 3.3 on Phi rounds to 1 at this resolution.
\* In double precision norm.cdf(x) is exactly 1.0 from x = 8.3 on; on the valid
\* inputs enumerated below d1 and d2 are either under 3.3 in magnitude or over
\* 8.3, so Cdf is 1 (or 0) here exactly where norm.cdf is.
CdfTable ==
    <<500, 540, 579, 618, 655, 691, 726, 758, 788, 816, 841, 864, 885, 903,
      919, 933, 945, 955, 964, 971, 977, 982, 986, 989, 992, 994, 995, 997,
      997, 998, 999, 999, 999, 1000>>

\* standard normal CDF of x >= 0, by linear interpolation in CdfTable
CdfPos(x) ==
    LET i == x \div 100
        f == x % 100
    IN  IF i + 1 >= Len(CdfTable) THEN ONE
        ELSE CdfTable[i + 1] + Rnd((CdfTable[i + 2] - CdfTable[i + 1]) * f, 100)

\* standard normal CDF; Phi(-x) = 1 - Phi(x)
Cdf(x) == IF x >= 0 THEN CdfPos(x) ELSE ONE - CdfPos(-x)

\* standard normal density exp(-x^2 / 2) / sqrt(2 pi)
Pdf(x) ==
    IF Abs(x) >= 30 * ONE THEN 0
    ELSE Mul(INV_SQRT_2PI, Exp(-Rnd(x * x, 2 * ONE)))

(***************************************************************************)
(* IEEE values and the Python / numpy operations on them                   *)
(***************************************************************************)
Fin(n) == [k |-> "fin", v |-> n]

Inf(s) == [k |-> "inf", v |-> s]

NaN == [k |-> "nan", v |-> 0]

ZeroDivisionError == [k |-> "ZeroDivisionError", v |-> 0]

IsFin(a) == a.k = "fin"

IsRaise(a) == a.k = "ZeroDivisionError"

\* a returned value that is +inf, -inf or nan
NonFinite(a) == a.k \in {"inf", "nan"}

\* sign of a finite or infinite value
Sgn(a) == IF a.k = "inf" THEN a.v ELSE Sign(a.v)

\* sign of a divisor, a zero divisor being +0.0
SgnDivisor(b) == IF Sgn(b) < 0 THEN -1 ELSE 1

\* Python's a / b on two Python numbers
PyDiv(a, b) == IF b = 0 THEN ZeroDivisionError ELSE Fin(Div(a, b))

FNeg(a) ==
    IF a.k = "fin" THEN Fin(-a.v)
    ELSE IF a.k = "inf" THEN Inf(-a.v)
    ELSE a

FAdd(a, b) ==
    IF IsRaise(a) THEN a
    ELSE IF IsRaise(b) THEN b
    ELSE IF a.k = "nan" \/ b.k = "nan" THEN NaN
    ELSE IF a.k = "inf" /\ b.k = "inf" THEN (IF a.v = b.v THEN a ELSE NaN)
    ELSE IF a.k = "inf" THEN a
    ELSE IF b.k = "inf" THEN b
    ELSE Fin(a.v + b.v)

FSub(a, b) == FAdd(a, FNeg(b))

FMul(a, b) ==
    IF IsRaise(a) THEN a
    ELSE IF IsRaise(b) THEN b
    ELSE IF a.k = "nan" \/ b.k = "nan" THEN NaN
    ELSE IF a.k = "inf" \/ b.k = "inf"
         THEN (IF Sgn(a) = 0 \/ Sgn(b) = 0 THEN NaN ELSE Inf(Sgn(a) * Sgn(b)))
    ELSE Fin(Mul(a.v, b.v))

\* numpy's a / b: a zero divisor gives inf or nan (with a RuntimeWarning),
\* never an exception
FDiv(a, b) ==
    IF IsRaise(a) THEN a
    ELSE IF IsRaise(b) THEN b
    ELSE IF a.k = "nan" \/ b.k = "nan" THEN NaN
    ELSE IF a.k = "inf"
         THEN (IF b.k = "inf" THEN NaN ELSE Inf(a.v * SgnDivisor(b)))
    ELSE IF b.k = "inf" THEN Fin(0)
    ELSE IF b.v = 0 THEN (IF a.v = 0 THEN NaN ELSE Inf(Sign(a.v)))
    ELSE Fin(Div(a.v, b.v))

\* np.log
NpLog(a) ==
    IF a.k = "fin"
    THEN (IF a.v > 0 THEN Fin(Ln(a.v)) ELSE IF a.v = 0 THEN Inf(-1) ELSE NaN)
    ELSE IF a.k = "inf" THEN (IF a.v > 0 THEN a ELSE NaN)
    ELSE a

\* np.sqrt of a Python number
NpSqrt(t) == IF t < 0 THEN NaN ELSE Fin(Sqrt(t))

\* np.exp of a Python number
NpExp(y) == Fin(Exp(y))

\* scipy.stats.norm.cdf
NormCdf(a) ==
    IF a.k = "fin" THEN Fin(Cdf(a.v))
    ELSE IF a.k = "inf" THEN (IF a.v > 0 THEN Fin(ONE) ELSE Fin(0))
    ELSE a

\* scipy.stats.norm.pdf
NormPdf(a) ==
    IF a.k = "fin" THEN Fin(Pdf(a.v))
    ELSE IF a.k = "inf" THEN Fin(0)
    ELSE a

\* Python's max(0, n) on a Python number
Max0(n) == IF n > 0 THEN n ELSE 0

(***************************************************************************)
(* class BlackScholes: the value each method returns, from the fields o    *)
(***************************************************************************)
\* sigma * np.sqrt(T)
SigmaSqrtT(o) == FMul(Fin(o.sigma), NpSqrt(o.T))

\* -r * T, a Python number
MinusRT(o) == Mul(-o.r, o.T)

\* d1 with a guard that answers 0 at T = 0 instead of dividing
d1_guarded(o) ==
    IF o.T = 0 THEN Fin(0)
    ELSE FDiv(FAdd(NpLog(PyDiv(o.S, o.K)),
                   Fin(Mul(o.r + Mul(ONE \div 2, Mul(o.sigma, o.sigma)), o.T))),
              SigmaSqrtT(o))

d1(o) ==
    FDiv(FAdd(NpLog(PyDiv(o.S, o.K)),
              Fin(Mul(o.r + Mul(ONE \div 2, Mul(o.sigma, o.sigma)), o.T))),
         SigmaSqrtT(o))

d2(o) == FSub(d1(o), SigmaSqrtT(o))

\* K * exp(-r T)
DiscountedStrike(o) == FMul(Fin(o.K), NpExp(MinusRT(o)))

\* the call price without the T == 0 branch
price_european_call_no_branch(o) ==
    FSub(FMul(Fin(o.S), NormCdf(d1(o))),
         FMul(DiscountedStrike(o), NormCdf(d2(o))))

price_european_call(o) ==
    LET a == d1(o)
        b == d2(o)
    IN  IF IsRaise(a) THEN a
        ELSE IF o.T = 0 THEN Fin(Max0(o.S - o.K))
        ELSE FSub(FMul(Fin(o.S), NormCdf(a)),
                  FMul(DiscountedStrike(o), NormCdf(b)))

\* the put price with cdf(d2) in place of cdf(-d2)
price_european_put_cdf_d2(o) ==
    LET a == d1(o)
        b == d2(o)
    IN  IF IsRaise(a) THEN a
        ELSE IF o.T = 0 THEN Fin(Max0(o.K - o.S))
        ELSE FSub(FMul(DiscountedStrike(o), NormCdf(b)),
                  FMul(Fin(o.S), NormCdf(FNeg(a))))

price_european_put(o) ==
    LET a == d1(o)
        b == d2(o)
    IN  IF IsRaise(a) THEN a
        ELSE IF o.T = 0 THEN Fin(Max0(o.K - o.S))
        ELSE FSub(FMul(DiscountedStrike(o), NormCdf(FNeg(b))),
                  FMul(Fin(o.S), NormCdf(FNeg(a))))

delta_european_call(o) == NormCdf(d1(o))

\* the put delta as 1 - cdf(d1)
delta_european_put_flipped(o) == FSub(Fin(ONE), NormCdf(d1(o)))

delta_european_put(o) == FSub(NormCdf(d1(o)), Fin(ONE))

gamma(o) ==
    FDiv(NormPdf(d1(o)), FMul(Fin(Mul(o.S, o.sigma)), NpSqrt(o.T)))

\* (-S * sigma * pdf(d1)) / (2 * sqrt(T))
ThetaDecay(o) ==
    FDiv(FMul(Fin(Mul(-o.S, o.sigma)), NormPdf(d1(o))),
         FMul(Fin(2 * ONE), NpSqrt(o.T)))

\* r * K * exp(-r T)
RateTimesDiscountedStrike(o) == FMul(Fin(Mul(o.r, o.K)), NpExp(MinusRT(o)))

theta_european_call(o) ==
    FSub(ThetaDecay(o), FMul(RateTimesDiscountedStrike(o), NormCdf(d2(o))))

theta_european_put(o) ==
    FAdd(ThetaDecay(o),
         FMul(RateTimesDiscountedStrike(o), NormCdf(FNeg(d2(o)))))

vega(o) == FMul(FMul(Fin(o.S), NpSqrt(o.T)), NormPdf(d1(o)))

\* K * T * exp(-r T)
StrikeTimeDiscount(o) == FMul(Fin(Mul(o.K, o.T)), NpExp(MinusRT(o)))

rho_european_call(o) == FMul(StrikeTimeDiscount(o), NormCdf(d2(o)))

\* the put rho without its leading minus sign
rho_european_put_unsigned(o) ==
    FMul(StrikeTimeDiscount(o), NormCdf(FNeg(d2(o))))

rho_european_put(o) ==
    FMul(FNeg(StrikeTimeDiscount(o)), NormCdf(FNeg(d2(o))))

(***************************************************************************)
(* What a method evaluates, in order: "d1" and "d2" are calls of those     *)
(* methods, "div0" a numpy division whose divisor is zero, "raise" the     *)
(* ZeroDivisionError of S / K, "T==0" the test of the price methods.       *)
(***************************************************************************)
DivZero(b) == IF b = Fin(0) THEN <<"div0">> ELSE <<>>

D1Trace(o) ==
    <<"d1">> \o (IF o.K = 0 THEN <<"raise">> ELSE DivZero(SigmaSqrtT(o)))

D2Trace(o) == <<"d2">> \o D1Trace(o)

PriceTrace(o) ==
    IF o.K = 0 THEN D1Trace(o)
    ELSE D1Trace(o) \o D2Trace(o) \o <<"T==0">>

GammaTrace(o) ==
    IF o.K = 0 THEN D1Trace(o)
    ELSE D1Trace(o) \o DivZero(FMul(Fin(Mul(o.S, o.sigma)), NpSqrt(o.T)))

ThetaTrace(o) ==
    IF o.K = 0 THEN D1Trace(o)
    ELSE D1Trace(o) \o D2Trace(o) \o DivZero(FMul(Fin(2 * ONE), NpSqrt(o.T)))

(***************************************************************************)
(* The inputs enumerated                                                   *)
(***************************************************************************)
\* spot prices 0 and 90, 100, ... (NSpot values)
NSpot == 2

\* expiries -1 and 0, 0.5, ..., NExpiry / 2
NExpiry == 2

Spots == {0} \cup {(90 + 10 * i) * ONE : i \in 0 .. NSpot - 1}

Strikes == {0, 10 * ONE, 100 * ONE}

Expiries == {-ONE} \cup {i * (ONE \div 2) : i \in 0 .. NExpiry}

Rates == {0, ONE \div 20}

Vols == {0, ONE \div 5}

Methods ==
    {"d1", "d2", "price_european_call", "price_european_put",
     "delta_european_call", "delta_european_put", "gamma",
     "theta_european_call", "theta_european_put", "vega",
     "rho_european_call", "rho_european_put"}

None == [k |-> "none", v |-> 0]

(***************************************************************************)
(* The object and its caller.  self is the object; last, result and trace  *)
(* are the method called last, what it returned and what it evaluated;     *)
(* first is the first call made on the object and its result, and whether  *)
(* another call has been made since.                                       *)
(***************************************************************************)
\* __init__ stores its five arguments and checks nothing
Init ==
    /\ self \in [S : Spots, K : Strikes, T : Expiries, r : Rates, sigma : Vols]
    /\ last = "init"
    /\ result = None
    /\ trace = <<>>
    /\ first = [q |-> "init", res |-> None, again |-> FALSE]

\* the caller receives val from method q
Return(q, val, tr) ==
    /\ last' = q
    /\ result' = val
    /\ trace' = tr
    /\ first' = IF first.q = "init"
                THEN [q |-> q, res |-> val, again |-> FALSE]
                ELSE [first EXCEPT !.again = TRUE]

Query_d1 == self' = self /\ Return("d1", d1(self), D1Trace(self))

Query_d2 == self' = self /\ Return("d2", d2(self), D2Trace(self))

Query_price_european_call ==
    /\ self' = self
    /\ Return("price_european_call", price_european_call(self), PriceTrace(self))

Query_price_european_put ==
    /\ self' = self
    /\ Return("price_european_put", price_european_put(self), PriceTrace(self))

Query_delta_european_call ==
    /\ self' = self
    /\ Return("delta_european_call", delta_european_call(self), D1Trace(self))

Query_delta_european_put ==
    /\ self' = self
    /\ Return("delta_european_put", delta_european_put(self), D1Trace(self))

Query_gamma == self' = self /\ Return("gamma", gamma(self), GammaTrace(self))

Query_theta_european_call ==
    /\ self' = self
    /\ Return("theta_european_call", theta_european_call(self), ThetaTrace(self))

Query_theta_european_put ==
    /\ self' = self
    /\ Return("theta_european_put", theta_european_put(self), ThetaTrace(self))

\* vega() keeping np.sqrt(T) in the field T
Query_vega_stores_sqrt ==
    /\ self' = [self EXCEPT !.T = IF @ < 0 THEN @ ELSE Sqrt(@)]
    /\ Return("vega", vega(self), D1Trace(self))

Query_vega == self' = self /\ Return("vega", vega(self), D1Trace(self))

Query_rho_european_call ==
    /\ self' = self
    /\ Return("rho_european_call", rho_european_call(self), D2Trace(self))

Query_rho_european_put ==
    /\ self' = self
    /\ Return("rho_european_put", rho_european_put(self), D2Trace(self))

Next ==
    \/ Query_d1
    \/ Query_d2
    \/ Query_price_european_call
    \/ Query_price_european_put
    \/ Query_delta_european_call
    \/ Query_delta_european_put
    \/ Query_gamma
    \/ Query_theta_european_call
    \/ Query_theta_european_put
    \/ Query_vega
    \/ Query_rho_european_call
    \/ Query_rho_european_put

Spec == Init /\ [][Next]_vars

(***************************************************************************)
(* Properties                                                              *)
(***************************************************************************)
\* S > 0, K > 0, T >= 0, sigma > 0
Valid(o) == o.S > 0 /\ o.K > 0 /\ o.T >= 0 /\ o.sigma > 0

\* spot <= 0, strike <= 0, T < 0, or sigma <= 0 with T > 0
OutOfDomain(o) ==
    o.S <= 0 \/ o.K <= 0 \/ o.T < 0 \/ (o.sigma <= 0 /\ o.T > 0)

Greeks ==
    {"delta_european_call", "delta_european_put", "gamma",
     "theta_european_call", "theta_european_put", "vega",
     "rho_european_call", "rho_european_put"}

Occurs(x, seq) == \E i \in 1 .. Len(seq) : seq[i] = x

\* C1: at T = 0 with S > 0, K > 0, sigma > 0, price_european_call returns
\* exactly max(0, S - K) and price_european_put exactly max(0, K - S), as a
\* finite value and not an exception.
C1_IntrinsicAtExpiry ==
    (Valid(self) /\ self.T = 0) =>
        /\ last = "price_european_call" =>
               result = Fin(IF self.S > self.K THEN self.S - self.K ELSE 0)
        /\ last = "price_european_put" =>
               result = Fin(IF self.K > self.S THEN self.K - self.S ELSE 0)

C1_Witness ==
    /\ Valid(self) /\ self.T = 0 /\ self.S = self.K
    /\ last = "price_european_call"
    /\ result = Fin(0)

\* C2 (as claimed): a query on an object whose parameters are out of domain
\* never returns a value; it fails with InvalidParameter.
C2_OutOfDomainRejected ==
    (OutOfDomain(self) /\ last \in Methods) => result.k = "InvalidParameter"

\* C3 (as claimed): no Greek called at T = 0 returns an infinite or NaN
\* value.
C3_GreeksFiniteAtExpiry ==
    (self.T = 0 /\ last \in Greeks) => ~NonFinite(result)

\* C4: put-call parity.  For valid inputs, call - put = S - K exp(-r T), to
\* within one unit of rounding, and exactly on the T = 0 branch.
C4_PutCallParity ==
    (/\ Valid(self)
     /\ first.q = "price_european_call"
     /\ last = "price_european_put") =>
        /\ IsFin(first.res) /\ IsFin(result)
        /\ Abs(first.res.v - result.v
               - (self.S - Mul(self.K, Exp(Mul(-self.r, self.T))))) <= 1
        /\ self.T = 0 => first.res.v - result.v = self.S - self.K

C4_Witness ==
    /\ Valid(self) /\ self.T > 0 /\ self.r > 0
    /\ first.q = "price_european_call"
    /\ last = "price_european_put"
    /\ first.res.v > 0 /\ result.v > 0

\* C5 (as claimed): a price call at T = 0 evaluates neither d1() nor d2()
\* and divides by no zero.
C5_PriceSkipsD1D2AtExpiry ==
    (self.T = 0 /\ last \in {"price_european_call", "price_european_put"}) =>
        /\ ~Occurs("d1", trace)
        /\ ~Occurs("d2", trace)
        /\ ~Occurs("div0", trace)

\* the two deltas of one object, in hand
BothDeltas ==
    /\ Valid(self) /\ self.T > 0
    /\ first.q = "delta_european_call"
    /\ last = "delta_european_put"

\* C6 (as claimed): for valid inputs with T > 0, delta_call - delta_put = 1
\* with delta_call strictly inside (0, 1) and delta_put strictly inside
\* (-1, 0).
C6_DeltaStrictRange ==
    BothDeltas =>
        /\ IsFin(first.res) /\ IsFin(result)
        /\ first.res.v - result.v = ONE
        /\ 0 < first.res.v /\ first.res.v < ONE
        /\ -ONE < result.v /\ result.v < 0

\* C6 (amended): for valid inputs with T > 0, delta_call - delta_put = 1
\* with delta_call in [0, 1] and delta_put in [-1, 0], so delta_put is
\* strictly less than delta_call.
C6_DeltaRange ==
    BothDeltas =>
        /\ IsFin(first.res) /\ IsFin(result)
        /\ first.res.v - result.v = ONE
        /\ 0 <= first.res.v /\ first.res.v <= ONE
        /\ -ONE <= result.v /\ result.v <= 0
        /\ result.v < first.res.v

C6_Witness == BothDeltas /\ first.res = Fin(ONE) /\ result = Fin(0)

\* C7: no query changes a field, and a query made again returns what it
\* returned the first time, whatever was called in between.
C7_FieldsFixed ==
    [][/\ self' = self
       /\ last' = first.q => result' = first.res]_vars

C7_Witness ==
    /\ first.again
    /\ last = first.q
    /\ last = "gamma"
    /\ Valid(self) /\ self.T > 0

\* the value d1() returns by the stated formula, for S > 0 and K > 0
D1Formula(o) ==
    Rnd((Ln(Rnd(o.S * ONE, o.K))
         + Rnd((o.r + Rnd(o.sigma * o.sigma, 2 * ONE)) * o.T, ONE)) * ONE,
        Rnd(o.sigma * Sqrt(o.T), ONE))

\* what C8 states of the last call, for the object at hand
D1D2Relation ==
    /\ last = "d1" => IsFin(result) /\ result = Fin(D1Formula(self))
    /\ (first.q = "d1" /\ last = "d2") =>
           /\ IsFin(first.res) /\ IsFin(result)
           /\ first.res.v - result.v = Rnd(self.sigma * Sqrt(self.T), ONE)
    /\ self = [S |-> 100 * ONE, K |-> 100 * ONE, T |-> ONE,
               r |-> ONE \div 20, sigma |-> ONE \div 5] =>
           /\ last = "d1" => result = Fin(350)
           /\ last = "d2" => result = Fin(150)

\* C8 (as claimed): for every instance with T > 0 and sigma > 0, d1() - d2()
\* = sigma sqrt(T) and d1() = (ln(S/K) + (r + sigma^2 / 2) T) / (sigma sqrt(T));
\* for S = K = 100, T = 1, r = 0.05, sigma = 0.2 that is d1 = 0.35 and
\* d2 = 0.15.  The instances include those with S = 0 or K = 0, which the
\* constructor accepts.
C8_D1D2 == (self.T > 0 /\ self.sigma > 0) => D1D2Relation

\* C8 on the instances with S > 0 and K > 0 only: there the relation holds.
C8_D1D2_PositiveSpotStrike == (Valid(self) /\ self.T > 0) => D1D2Relation

\* Phi(d2) strictly between 0 and 1
PhiInside(o) == IsFin(d2(o)) /\ 0 < Cdf(d2(o).v) /\ Cdf(d2(o).v) < ONE

\* C9: for valid inputs with T > 0, gamma() >= 0 and vega() >= 0; and for
\* r > 0, where 0 < Phi(d2) < 1, rho_european_call() > 0 and
\* rho_european_put() < 0.
C9_GreekSigns ==
    (Valid(self) /\ self.T > 0) =>
        /\ last \in {"gamma", "vega"} => IsFin(result) /\ result.v >= 0
        /\ (self.r > 0 /\ PhiInside(self)) =>
               /\ last = "rho_european_call" => IsFin(result) /\ result.v > 0
               /\ last = "rho_european_put" => IsFin(result) /\ result.v < 0

C9_Witness ==
    /\ Valid(self) /\ self.T > 0 /\ self.r > 0 /\ PhiInside(self)
    /\ last = "rho_european_put"
    /\ result.v < 0

\* gamma() or vega() called at T = 0 on otherwise valid parameters
GammaOrVegaAtExpiry ==
    Valid(self) /\ self.T = 0 /\ last \in {"gamma", "vega"}

\* C10 (as claimed): at T = 0, gamma() and vega() divide by zero and return
\* a non-finite value, for every S and K.
C10_GammaVegaNonFinite ==
    GammaOrVegaAtExpiry => Occurs("div0", trace) /\ NonFinite(result)

\* C10 (amended): at T = 0, gamma() and vega() divide by zero (in d1);
\* gamma() returns NaN for every S and K; vega() returns NaN when S = K and
\* the finite value 0 when S # K.
C10_GammaNaNVegaZero ==
    GammaOrVegaAtExpiry =>
        /\ Occurs("div0", trace)
        /\ last = "gamma" => result = NaN
        /\ (last = "vega" /\ self.S = self.K) => result = NaN
        /\ (last = "vega" /\ self.S # self.K) => result = Fin(0)

C10_Witness ==
    GammaOrVegaAtExpiry /\ last = "vega" /\ self.S # self.K /\ result = Fin(0)

====
